---- MODULE Spec2Model ----
(***************************************************************************)
(* FaceMeshView (src/src/App.tsx, lines 101-435): the permission /         *)
(* readiness / error state machine of the face-tracking view, its          *)
(* availability prober, its mesh overlay renderer, and the external        *)
(* detector (FaceMesh) and capture loop (Camera) instances it creates,     *)
(* starts, feeds and tears down; and App (lines 5-77), the page around it  *)
(* with its own probe of the script host and its unavailability banner.    *)
(*                                                                         *)
(* One step of the model is one browser task: an event handler, timer      *)
(* callback or promise reaction, together with the React re-render it      *)
(* causes and the auto-start effect of that render. Handlers read React    *)
(* state through the closure of the render that created them; refs are     *)
(* read live.                                                              *)
(***************************************************************************)
EXTENDS Integers, Sequences, FiniteSets, TLC

\* ---------------------------------------------------------------- bounds
MaxInstances == 2   \* detector / capture-loop instances constructed in one run
MaxTimers    == 1   \* Retry timers pending at once
MaxProbes    == 2   \* probes of the script host in flight at once
MaxFaces     == 2   \* faces in one landmark result

\* ------------------------------------------------------------- constants
NULL == "<null>"    \* JavaScript null (lastError, faceMeshRef, cameraRef use 0)

Libs == {"FaceMesh", "Camera", "drawConnectors"}

UnavailableMsg == "MediaPipe libraries are not available. Please check your internet connection and try again."
StartFallbackMsg == "Failed to start camera"
InitFallbackMsg == "Failed to initialize face mesh"
WebcamFallbackMsg == "Error accessing camera"

\* The characters of the messages the capture surface can report, for the
\* substring test of handleWebcamError.
Chars(m) ==
  CASE m = "Permission denied" ->
         <<"P","e","r","m","i","s","s","i","o","n"," ","d","e","n","i","e","d">>
    [] m = "no permission" ->
         <<"n","o"," ","p","e","r","m","i","s","s","i","o","n">>
    [] m = WebcamFallbackMsg ->
         <<"E","r","r","o","r"," ","a","c","c","e","s","s","i","n","g"," ","c","a","m","e","r","a">>

\* String.prototype.includes
Includes(s, sub) ==
  \E i \in 0..(Len(s) - Len(sub)) : SubSeq(s, i + 1, i + Len(sub)) = sub

\* What react-webcam hands to onUserMediaError: a DOMException, a string, or
\* anything else.
WebcamErrors ==
  { [type |-> "DOMException", message |-> "Permission denied"],
    [type |-> "string",       message |-> "no permission"],
    [type |-> "other",        message |-> ""] }

\* Rejection reasons of Camera.start(); "" is an error without a message.
StartErrors == {"Permission denied", ""}

VARIABLES
  phase,                  \* "rendered" (first render, effects not yet run), "mounted", "unmounted"
  showPermissionRequest, isLoading, cameraReady, lastError, isRunning, cdnAvailable,
  faceMeshRef, cameraRef, \* index into detectors / cameras, 0 for null
  detectors,              \* every FaceMesh constructed: [closed]
  cameras,                \* every Camera constructed: [status, stopCalled]
  webcam,                 \* the mounted <Webcam>: "unmounted", "requesting", "ready", "failed"
  globals,                \* which of Libs are defined on window
  intervalActive, timeoutPending, injected,
  retryTimers,            \* pending setTimeout(startFaceMesh, 500), each with its closure
  isCdnAvailable, isCheckingCdn, \* App's state
  probes,                 \* checkCdnAvailability calls of App in flight
  pageInterval,           \* App's setInterval(checkCdnAvailability, 60000) is set
  lastResults,            \* what the last onResults call was given, and the canvas it found
  ctx,                    \* the 2D context of the overlay canvas
  \* What the last step did (reset by every step):
  attempt,                \* its startFaceMesh call, if it got past the early return
  lastFrame,              \* "sent" or "failed" (logged) if it forwarded a frame, else "none"
  repeatedTeardown,       \* it called stop() or close() on an instance already torn down
  uncaught                \* an exception escaped its handler

vars == <<phase, showPermissionRequest, isLoading, cameraReady, lastError, isRunning,
          cdnAvailable, faceMeshRef, cameraRef, detectors, cameras, webcam, globals,
          intervalActive, timeoutPending, injected, retryTimers,
          isCdnAvailable, isCheckingCdn, probes, pageInterval, lastResults, ctx,
          attempt, lastFrame, repeatedTeardown, uncaught>>

NoAttempt == [path |-> "none", outcome |-> "none"]

\* The component's state and refs as one record, for the handlers to transform.
View ==
  [ showPermissionRequest |-> showPermissionRequest, isLoading |-> isLoading,
    cameraReady |-> cameraReady, lastError |-> lastError, isRunning |-> isRunning,
    cdnAvailable |-> cdnAvailable, faceMeshRef |-> faceMeshRef, cameraRef |-> cameraRef,
    detectors |-> detectors, cameras |-> cameras, repeatedTeardown |-> FALSE,
    uncaught |-> FALSE, attempt |-> NoAttempt ]

\* A step that starts nothing, forwards no frame and tears nothing down twice.
NoEvents ==
  attempt' = NoAttempt /\ lastFrame' = "none" /\ repeatedTeardown' = FALSE /\ uncaught' = FALSE

\* The run stays within the bounds of the model.
WithinBounds(n) ==
  /\ Len(n.cameras) <= MaxInstances
  /\ Len(n.detectors) <= MaxInstances

\* setState on an unmounted component is ignored; refs and external objects change.
Commit(n) ==
  /\ showPermissionRequest' = IF phase = "mounted" THEN n.showPermissionRequest ELSE showPermissionRequest
  /\ isLoading' = IF phase = "mounted" THEN n.isLoading ELSE isLoading
  /\ cameraReady' = IF phase = "mounted" THEN n.cameraReady ELSE cameraReady
  /\ lastError' = IF phase = "mounted" THEN n.lastError ELSE lastError
  /\ isRunning' = IF phase = "mounted" THEN n.isRunning ELSE isRunning
  /\ cdnAvailable' = IF phase = "mounted" THEN n.cdnAvailable ELSE cdnAvailable
  /\ faceMeshRef' = n.faceMeshRef
  /\ cameraRef' = n.cameraRef
  /\ detectors' = n.detectors
  /\ cameras' = n.cameras
  /\ repeatedTeardown' = n.repeatedTeardown
  /\ uncaught' = n.uncaught
  /\ attempt' = n.attempt
  /\ lastFrame' = "none"
  /\ WithinBounds(n)

\* webcamRef.current, its video and canvasRef.current exist exactly while the
\* <Webcam> and <canvas> of the gate's else-branch are rendered.
SurfaceMounted(s) == phase = "mounted" /\ ~s.showPermissionRequest

\* typeof window.X !== 'undefined' for the three globals
checkMediaPipeAvailability == globals = Libs

\* -------------------------------------------------------- the overlay canvas
\* One call on the 2D context or of a drawing helper: `what` is the connector
\* set drawn (or "points"), `landmarks` the face it is drawn for.
Call(op, what, landmarks) == [op |-> op, what |-> what, landmarks |-> landmarks]

\* The context of a fresh canvas: `log` holds the calls of the latest onResults,
\* `pixels` what has been drawn since the canvas was last cleared, each with the
\* transform it was drawn under; `saved` is the stack of ctx.save().
NewContext == [log |-> <<>>, pixels |-> <<>>, transform |-> "identity", saved |-> <<>>]

\* A landmark result: multiFaceLandmarks may be absent (`defined` false).
NoFaces == [defined |-> FALSE, multiFaceLandmarks |-> <<>>]

\* The landmark lists a result may carry, one per detected face.
Landmarks == {"face1", "face2"}

Results ==
  {NoFaces} \cup
  {[defined |-> TRUE, multiFaceLandmarks |-> f] :
     f \in UNION {[1..n -> Landmarks] : n \in 0..MaxFaces}}

\* ctx.save()
save(c) ==
  [c EXCEPT !.log = Append(@, Call("save", "", "")), !.saved = Append(@, c.transform)]

\* ctx.restore()
restore(c) ==
  [c EXCEPT !.log = Append(@, Call("restore", "", "")),
            !.transform = IF c.saved = <<>> THEN @ ELSE c.saved[Len(c.saved)],
            !.saved = IF c.saved = <<>> THEN @ ELSE SubSeq(@, 1, Len(@) - 1)]

\* ctx.clearRect(0, 0, canvas.width, canvas.height): the rectangle is the whole
\* canvas under the identity and under the mirror, and lies off it otherwise.
clearRect(c) ==
  [c EXCEPT !.log = Append(@, Call("clearRect", "", "")),
            !.pixels = IF c.transform \in {"identity", "mirrored"} THEN <<>> ELSE @]

\* ctx.scale(-1, 1)
scale(c) ==
  [c EXCEPT !.log = Append(@, Call("scale", "", "")),
            !.transform = IF @ = "identity" THEN "flipped" ELSE "other"]

\* ctx.translate(-canvas.width, 0)
translate(c) ==
  [c EXCEPT !.log = Append(@, Call("translate", "", "")),
            !.transform = IF @ = "flipped" THEN "mirrored" ELSE "other"]

\* window.drawConnectors(ctx, landmarks, connectors, style)
drawConnectors(c, landmarks, connectors) ==
  [c EXCEPT !.log = Append(@, Call("drawConnectors", connectors, landmarks)),
            !.pixels = Append(@, [what |-> connectors, landmarks |-> landmarks,
                                  transform |-> c.transform])]

\* window.drawLandmarks(ctx, landmarks, style)
drawLandmarks(c, landmarks) ==
  [c EXCEPT !.log = Append(@, Call("drawLandmarks", "points", landmarks)),
            !.pixels = Append(@, [what |-> "points", landmarks |-> landmarks,
                                  transform |-> c.transform])]

\* The body of the loop over the faces of a result.
DrawFace(c, landmarks) ==
  LET mesh     == drawConnectors(c, landmarks, "FACEMESH_TESSELATION")
      eyeR     == drawConnectors(mesh, landmarks, "FACEMESH_RIGHT_EYE")
      eyeL     == drawConnectors(eyeR, landmarks, "FACEMESH_LEFT_EYE")
      browR    == drawConnectors(eyeL, landmarks, "FACEMESH_RIGHT_EYEBROW")
      browL    == drawConnectors(browR, landmarks, "FACEMESH_LEFT_EYEBROW")
      oval     == drawConnectors(browL, landmarks, "FACEMESH_FACE_OVAL")
      lips     == drawConnectors(oval, landmarks, "FACEMESH_LIPS")
  IN drawLandmarks(lips, landmarks)

\* The loop drawing the first face only.
DrawFaces_FirstOnly(c, faces) ==
  IF faces = <<>> THEN c ELSE DrawFace(c, Head(faces))

\* for (const landmarks of results.multiFaceLandmarks)
RECURSIVE DrawFaces(_, _)
DrawFaces(c, faces) ==
  IF faces = <<>> THEN c ELSE DrawFaces(DrawFace(c, Head(faces)), Tail(faces))

\* onResults with ctx.clearRect forgotten.
renderResults_NoClear(c, results) ==
  LET mirrored == translate(scale(save([c EXCEPT !.log = <<>>])))
      drawn == IF results.defined /\ Len(results.multiFaceLandmarks) > 0
               THEN DrawFaces(mirrored, results.multiFaceLandmarks)
               ELSE mirrored
  IN restore(drawn)

\* onResults once it holds a canvas and its 2D context.
renderResults(c, results) ==
  LET mirrored == translate(scale(clearRect(save([c EXCEPT !.log = <<>>]))))
      drawn == IF results.defined /\ Len(results.multiFaceLandmarks) > 0
               THEN DrawFaces(mirrored, results.multiFaceLandmarks)
               ELSE mirrored
  IN restore(drawn)

Init ==
  /\ phase = "rendered"
  /\ showPermissionRequest = TRUE
  /\ isLoading = FALSE
  /\ cameraReady = FALSE
  /\ lastError = NULL
  /\ isRunning = FALSE
  /\ cdnAvailable = TRUE
  /\ faceMeshRef = 0
  /\ cameraRef = 0
  /\ detectors = <<>>
  /\ cameras = <<>>
  /\ repeatedTeardown = FALSE
  /\ uncaught = FALSE
  /\ webcam = "unmounted"
  /\ globals \in SUBSET Libs
  /\ intervalActive = FALSE
  /\ timeoutPending = FALSE
  /\ injected = <<>>
  /\ retryTimers = <<>>
  /\ isCdnAvailable = TRUE
  /\ isCheckingCdn = TRUE
  /\ probes = 0
  /\ pageInterval = FALSE
  /\ lastResults = [results |-> NoFaces, canvas |-> "uncalled"]
  /\ ctx = NewContext
  /\ lastFrame = "none"
  /\ attempt = NoAttempt

\* ------------------------------------------------------- external objects
\* A camera is "starting" while its start() promise is pending, then "active"
\* (the loop runs), "failed" (start() rejected) or "stopped".
NewDetector == [closed |-> FALSE]
NewCamera == [status |-> "starting", stopCalled |-> FALSE]

\* Camera.stop() returning normally: an active loop ends; a loop still being
\* started keeps its pending start() promise.
StopCamera(c) ==
  [c EXCEPT !.stopCalled = TRUE,
            !.status = IF @ = "active" THEN "stopped" ELSE @]

\* FaceMesh.close() returning normally
CloseDetector(d) == [d EXCEPT !.closed = TRUE]

\* Capture loops started, or being started, and not stopped.
LiveCameras(cs) ==
  {i \in 1..Len(cs) : cs[i].status = "active" \/ (cs[i].status = "starting" /\ ~cs[i].stopCalled)}

\* ---------------------------------------------------------------- handlers
\* startFaceMesh as created by a render whose state was `closure`; `path` names
\* the caller, `ext` is what the external constructors do ("ok", "throws").
startFaceMesh(s, closure, path, ext) ==
  IF ~SurfaceMounted(s) \/ closure.isRunning THEN s
  ELSE IF ~closure.cdnAvailable THEN
    [s EXCEPT !.isLoading = FALSE, !.lastError = UnavailableMsg,
              !.attempt = [path |-> path, outcome |-> "unavailable"]]
  ELSE IF ext = "throws" THEN
    [s EXCEPT !.isLoading = FALSE, !.lastError = InitFallbackMsg,
              !.attempt = [path |-> path, outcome |-> "threw"]]
  ELSE
    [s EXCEPT !.isLoading = TRUE,
              !.detectors = Append(@, NewDetector),
              !.faceMeshRef = Len(s.detectors) + 1,
              !.cameras = Append(@, NewCamera),
              !.cameraRef = Len(s.cameras) + 1,
              !.attempt = [path |-> path, outcome |-> "constructed"]]

\* stopFaceMesh without its try/catch: a throwing Camera.stop() escapes.
stopFaceMesh_NoCatch(s, ext) ==
  IF s.cameraRef # 0 /\ ext = "stopThrows" THEN [s EXCEPT !.uncaught = TRUE]
  ELSE
    LET s1 == IF s.cameraRef # 0
              THEN [s EXCEPT !.cameras[s.cameraRef] = StopCamera(@),
                             !.repeatedTeardown = @ \/ s.cameras[s.cameraRef].stopCalled]
              ELSE s
        s2 == IF s1.faceMeshRef # 0
              THEN [s1 EXCEPT !.detectors[s1.faceMeshRef] = CloseDetector(@),
                              !.repeatedTeardown = @ \/ s1.detectors[s1.faceMeshRef].closed]
              ELSE s1
    IN [s2 EXCEPT !.isRunning = FALSE]

\* stopFaceMesh; `ext` is what Camera.stop() does when it is called: "ok" or
\* "stopThrows". The catch block logs the exception and returns.
stopFaceMesh(s, ext) ==
  IF s.cameraRef # 0 /\ ext = "stopThrows" THEN s
  ELSE
    LET s1 == IF s.cameraRef # 0
              THEN [s EXCEPT !.cameras[s.cameraRef] = StopCamera(@),
                             !.repeatedTeardown = @ \/ s.cameras[s.cameraRef].stopCalled]
              ELSE s
        s2 == IF s1.faceMeshRef # 0
              THEN [s1 EXCEPT !.detectors[s1.faceMeshRef] = CloseDetector(@),
                              !.repeatedTeardown = @ \/ s1.detectors[s1.faceMeshRef].closed]
              ELSE s1
    IN [s2 EXCEPT !.isRunning = FALSE]

\* The dependency list with lastError added to it.
AutoStartDeps_WithError(s) ==
  <<s.showPermissionRequest, s.cameraReady, s.isRunning, s.lastError>>

\* The dependency list of the auto-start effect.
AutoStartDeps(s) == <<s.showPermissionRequest, s.cameraReady, s.isRunning>>

\* The condition of the auto-start effect, on the render it belongs to.
AutoStartCondition(s) ==
  ~s.showPermissionRequest /\ s.cameraReady /\ ~s.isRunning /\ SurfaceMounted(s)

\* The re-render after a handler took the state from `old` to `new`: the
\* auto-start effect runs when one of its dependencies changed.
Render(old, new, path, ext) ==
  IF phase = "mounted" /\ AutoStartDeps(old) # AutoStartDeps(new) /\ AutoStartCondition(new)
  THEN startFaceMesh(new, [isRunning |-> new.isRunning, cdnAvailable |-> new.cdnAvailable],
                     path, ext)
  ELSE new

StartExt == {"ok", "throws"}
StopExt == {"ok", "stopThrows"}

\* ----------------------------------------------------------------- actions
\* A step of FaceMeshView outside its renderer leaves App and the canvas alone.
Unchanged_page ==
  UNCHANGED <<isCdnAvailable, isCheckingCdn, probes, pageInterval, lastResults, ctx>>

\* The effects of the first commit, the child's before the parent's. Of
\* FaceMeshView: the availability effect's initial check, interval and grace
\* timeout; the auto-start effect sees the gate and does nothing. Of App: the
\* first checkCdnAvailability call, which runs up to its first await, and the
\* 60 s interval.
Mount ==
  /\ phase = "rendered"
  /\ phase' = "mounted"
  /\ cdnAvailable' = checkMediaPipeAvailability
  /\ intervalActive' = TRUE
  /\ timeoutPending' = TRUE
  /\ isCheckingCdn' = TRUE
  /\ probes' = probes + 1
  /\ pageInterval' = TRUE
  /\ NoEvents
  /\ UNCHANGED <<showPermissionRequest, isLoading, cameraReady, lastError, isRunning,
                 faceMeshRef, cameraRef, detectors, cameras, webcam, globals, injected,
                 retryTimers, isCdnAvailable, lastResults, ctx>>

\* setInterval(checkMediaPipeAvailability, 1000)
Poll ==
  /\ intervalActive
  /\ cdnAvailable' = checkMediaPipeAvailability
  /\ NoEvents
  /\ UNCHANGED <<phase, showPermissionRequest, isLoading, cameraReady, lastError, isRunning,
                 faceMeshRef, cameraRef, detectors, cameras, webcam, globals,
                 intervalActive, timeoutPending, injected, retryTimers>>
  /\ Unchanged_page

\* The grace timeout written with setInterval: it fires again and again.
GraceTimeout_Repeats ==
  /\ timeoutPending
  /\ timeoutPending' = TRUE
  /\ cdnAvailable' = checkMediaPipeAvailability
  /\ injected' = IF checkMediaPipeAvailability THEN injected
                 ELSE injected \o <<"camera_utils", "drawing_utils", "face_mesh">>
  /\ NoEvents
  /\ UNCHANGED <<phase, showPermissionRequest, isLoading, cameraReady, lastError, isRunning,
                 faceMeshRef, cameraRef, detectors, cameras, webcam, globals,
                 intervalActive, retryTimers>>
  /\ Unchanged_page

\* The 3000 ms grace timeout: check, and inject the three scripts if unavailable.
GraceTimeout ==
  /\ timeoutPending
  /\ timeoutPending' = FALSE
  /\ cdnAvailable' = checkMediaPipeAvailability
  /\ injected' = IF checkMediaPipeAvailability THEN injected
                 ELSE injected \o <<"camera_utils", "drawing_utils", "face_mesh">>
  /\ NoEvents
  /\ UNCHANGED <<phase, showPermissionRequest, isLoading, cameraReady, lastError, isRunning,
                 faceMeshRef, cameraRef, detectors, cameras, webcam, globals,
                 intervalActive, retryTimers>>
  /\ Unchanged_page

\* A script of the page finishes loading and defines its global.
ScriptLoad(g) ==
  /\ g \notin globals
  /\ globals' = globals \cup {g}
  /\ NoEvents
  /\ UNCHANGED <<phase, showPermissionRequest, isLoading, cameraReady, lastError, isRunning,
                 cdnAvailable, faceMeshRef, cameraRef, detectors, cameras, webcam,
                 intervalActive, timeoutPending, injected, retryTimers>>
  /\ Unchanged_page

Unchanged_env ==
  /\ UNCHANGED <<phase, globals, intervalActive, timeoutPending, injected>>
  /\ Unchanged_page

\* The user confirms the permission gate: the <Webcam> and a fresh <canvas>
\* are mounted.
handleRequestCameraAccess(ext) ==
  /\ phase = "mounted" /\ showPermissionRequest
  /\ LET n == [View EXCEPT !.showPermissionRequest = FALSE, !.isLoading = TRUE]
     IN Commit(Render(View, n, "grant", ext))
  /\ webcam' = "requesting"
  /\ ctx' = NewContext
  /\ UNCHANGED <<phase, globals, intervalActive, timeoutPending, injected, retryTimers,
                 isCdnAvailable, isCheckingCdn, probes, pageInterval, lastResults>>

\* onUserMedia of the mounted <Webcam>. The capture surface may report, ready
\* or failed, at any point while it is mounted.
handleWebcamLoad(ext) ==
  /\ phase = "mounted" /\ webcam # "unmounted"
  /\ LET n == [View EXCEPT !.cameraReady = TRUE, !.isLoading = FALSE]
     IN Commit(Render(View, n, "effect", ext))
  /\ webcam' = "ready"
  /\ Unchanged_env
  /\ UNCHANGED retryTimers

ErrorMessage(error) ==
  IF error.type = "DOMException" THEN error.message
  ELSE IF error.type = "string" THEN error.message
  ELSE WebcamFallbackMsg

\* IsPermissionMessage with the lower-case test forgotten.
IsPermissionMessage_CapitalOnly(m) ==
  Includes(Chars(m), <<"P","e","r","m","i","s","s","i","o","n">>)

IsPermissionMessage(m) ==
  \/ Includes(Chars(m), <<"P","e","r","m","i","s","s","i","o","n">>)
  \/ Includes(Chars(m), <<"p","e","r","m","i","s","s","i","o","n">>)

\* onUserMediaError of the mounted <Webcam>
handleWebcamError(error, ext) ==
  /\ phase = "mounted" /\ webcam # "unmounted"
  /\ LET errorMessage == ErrorMessage(error)
         n == [View EXCEPT
                 !.showPermissionRequest = IF IsPermissionMessage(errorMessage) THEN TRUE ELSE @,
                 !.lastError = errorMessage,
                 !.isLoading = FALSE]
     IN /\ Commit(Render(View, n, "effect", ext))
        /\ webcam' = IF n.showPermissionRequest THEN "unmounted" ELSE "failed"
  /\ Unchanged_env
  /\ UNCHANGED retryTimers

\* The Retry button of the error overlay.
handleRetry(stopExt, ext) ==
  /\ phase = "mounted" /\ ~showPermissionRequest /\ lastError # NULL
  /\ Len(retryTimers) < MaxTimers
  /\ LET cleared == [View EXCEPT !.lastError = NULL]
         n == IF isRunning THEN stopFaceMesh(cleared, stopExt) ELSE cleared
     IN Commit(Render(View, n, "effect", ext))
  /\ retryTimers' = Append(retryTimers, [isRunning |-> isRunning, cdnAvailable |-> cdnAvailable])
  /\ Unchanged_env
  /\ UNCHANGED webcam

\* The 500 ms timer of handleRetry calls the startFaceMesh of the render in
\* which Retry was clicked.
RetryTimerFires(ext) ==
  /\ retryTimers # <<>>
  /\ LET n == startFaceMesh(View, Head(retryTimers), "retry", ext)
     IN Commit(Render(View, n, "effect", ext))
  /\ retryTimers' = Tail(retryTimers)
  /\ Unchanged_env
  /\ UNCHANGED webcam

\* StartResolves with setLastError(null) forgotten.
StartResolves_KeepsError(c, live) ==
  /\ c \in 1..Len(cameras) /\ cameras[c].status = "starting"
  /\ ~cameras[c].stopCalled => live
  /\ LET n0 == [View EXCEPT !.cameras[c].status = IF live THEN "active" ELSE "stopped"]
         n == [n0 EXCEPT !.isRunning = TRUE, !.isLoading = FALSE]
     IN Commit(Render(View, IF phase = "mounted" THEN n ELSE n0, "effect", "ok"))
  /\ Unchanged_env
  /\ UNCHANGED <<webcam, retryTimers>>

\* cameraRef.current.start() resolves: .then and .finally. A loop that was
\* stopped while its start was pending may or may not come up (`live`).
StartResolves(c, live) ==
  /\ c \in 1..Len(cameras) /\ cameras[c].status = "starting"
  /\ ~cameras[c].stopCalled => live
  /\ LET n0 == [View EXCEPT !.cameras[c].status = IF live THEN "active" ELSE "stopped"]
         n == [n0 EXCEPT !.isRunning = TRUE, !.lastError = NULL, !.isLoading = FALSE]
     IN Commit(Render(View, IF phase = "mounted" THEN n ELSE n0, "effect", "ok"))
  /\ Unchanged_env
  /\ UNCHANGED <<webcam, retryTimers>>

\* StartRejects with the fallback text forgotten.
StartRejects_NoFallback(c, message) ==
  /\ c \in 1..Len(cameras) /\ cameras[c].status = "starting"
  /\ LET n0 == [View EXCEPT !.cameras[c].status = "failed"]
         n == [n0 EXCEPT !.lastError = message, !.isLoading = FALSE]
     IN Commit(Render(View, IF phase = "mounted" THEN n ELSE n0, "effect", "ok"))
  /\ Unchanged_env
  /\ UNCHANGED <<webcam, retryTimers>>

\* cameraRef.current.start() rejects: .catch and .finally.
StartRejects(c, message) ==
  /\ c \in 1..Len(cameras) /\ cameras[c].status = "starting"
  /\ LET n0 == [View EXCEPT !.cameras[c].status = "failed"]
         n == [n0 EXCEPT !.lastError = IF message # "" THEN message ELSE StartFallbackMsg,
                         !.isLoading = FALSE]
     IN Commit(Render(View, IF phase = "mounted" THEN n ELSE n0, "effect", "ok"))
  /\ Unchanged_env
  /\ UNCHANGED <<webcam, retryTimers>>

\* onFrame treating a failed send as a session error.
onFrame_HaltOnError(c, sendOk) ==
  /\ c \in 1..Len(cameras) /\ cameras[c].status = "active"
  /\ faceMeshRef # 0 /\ SurfaceMounted(View)
  /\ lastFrame' = IF sendOk THEN "sent" ELSE "failed"
  /\ lastError' = IF sendOk THEN lastError ELSE StartFallbackMsg
  /\ isRunning' = (isRunning /\ sendOk)
  /\ attempt' = NoAttempt
  /\ repeatedTeardown' = FALSE
  /\ uncaught' = FALSE
  /\ UNCHANGED <<phase, showPermissionRequest, isLoading, cameraReady,
                 cdnAvailable, faceMeshRef, cameraRef, detectors, cameras, webcam, globals,
                 intervalActive, timeoutPending, injected, retryTimers>>
  /\ Unchanged_page

\* onFrame of an active capture loop: forwards the frame to the current
\* detector; a failing send is logged and nothing else.
onFrame(c, sendOk) ==
  /\ c \in 1..Len(cameras) /\ cameras[c].status = "active"
  /\ faceMeshRef # 0 /\ SurfaceMounted(View)
  /\ lastFrame' = IF sendOk THEN "sent" ELSE "failed"
  /\ attempt' = NoAttempt
  /\ repeatedTeardown' = FALSE
  /\ uncaught' = FALSE
  /\ UNCHANGED <<phase, showPermissionRequest, isLoading, cameraReady, lastError, isRunning,
                 cdnAvailable, faceMeshRef, cameraRef, detectors, cameras, webcam, globals,
                 intervalActive, timeoutPending, injected, retryTimers>>
  /\ Unchanged_page

\* The detector delivers a result to the onResults registered on it. The
\* canvas is there while the capture surface is rendered; `context` is what
\* canvas.getContext('2d') returns ("ok" or "noContext").
onResults(results, context) ==
  /\ detectors # <<>>
  /\ LET canvas == IF SurfaceMounted(View) THEN context ELSE "none"
     IN /\ lastResults' = [results |-> results, canvas |-> canvas]
        /\ ctx' = IF canvas = "ok" THEN renderResults(ctx, results)
                  ELSE [ctx EXCEPT !.log = <<>>]
  /\ NoEvents
  /\ UNCHANGED <<phase, showPermissionRequest, isLoading, cameraReady, lastError, isRunning,
                 cdnAvailable, faceMeshRef, cameraRef, detectors, cameras, webcam, globals,
                 intervalActive, timeoutPending, injected, retryTimers,
                 isCdnAvailable, isCheckingCdn, probes, pageInterval>>

\* What the three HEAD requests of one checkCdnAvailability call can end in:
\* a response that is ok, one that is not, or a network error.
FetchOutcomes == [1..3 -> {"ok", "notOk", "error"}]

\* App's interval calls checkCdnAvailability, which runs up to its first await.
checkCdnAvailability ==
  /\ pageInterval /\ probes < MaxProbes
  /\ isCheckingCdn' = TRUE
  /\ probes' = probes + 1
  /\ NoEvents
  /\ UNCHANGED <<phase, showPermissionRequest, isLoading, cameraReady, lastError, isRunning,
                 cdnAvailable, faceMeshRef, cameraRef, detectors, cameras, webcam, globals,
                 intervalActive, timeoutPending, injected, retryTimers,
                 isCdnAvailable, pageInterval, lastResults, ctx>>

\* The requests of one checkCdnAvailability call have settled: the rest of
\* its try block, or its catch block, and its finally block. A request that
\* throws ends the try block; App's state is gone once the page is torn down.
ProbeSettles(responses) ==
  /\ probes > 0
  /\ probes' = probes - 1
  /\ isCdnAvailable' = IF phase # "mounted" THEN isCdnAvailable
                       ELSE \A i \in 1..3 : responses[i] = "ok"
  /\ isCheckingCdn' = IF phase # "mounted" THEN isCheckingCdn ELSE FALSE
  /\ NoEvents
  /\ UNCHANGED <<phase, showPermissionRequest, isLoading, cameraReady, lastError, isRunning,
                 cdnAvailable, faceMeshRef, cameraRef, detectors, cameras, webcam, globals,
                 intervalActive, timeoutPending, injected, retryTimers,
                 pageInterval, lastResults, ctx>>

\* The banner of App
Banner == ~isCheckingCdn /\ ~isCdnAvailable

\* The page is torn down: the cleanups of FaceMeshView's availability effect
\* and unmount effect, and of App's effect.
Unmount(stopExt) ==
  /\ phase = "mounted"
  /\ phase' = "unmounted"
  /\ intervalActive' = FALSE
  /\ timeoutPending' = FALSE
  /\ pageInterval' = FALSE
  /\ webcam' = "unmounted"
  /\ LET n == stopFaceMesh(View, stopExt)
     IN /\ faceMeshRef' = n.faceMeshRef
        /\ cameraRef' = n.cameraRef
        /\ detectors' = n.detectors
        /\ cameras' = n.cameras
        /\ repeatedTeardown' = n.repeatedTeardown
        /\ uncaught' = n.uncaught
  /\ attempt' = NoAttempt
  /\ lastFrame' = "none"
  /\ UNCHANGED <<showPermissionRequest, isLoading, cameraReady, lastError, isRunning,
                 cdnAvailable, globals, injected, retryTimers,
                 isCdnAvailable, isCheckingCdn, probes, lastResults, ctx>>

\* Everything but the reports of the capture surface.
OtherSteps ==
  \/ Mount
  \/ Poll
  \/ GraceTimeout
  \/ \E g \in Libs : ScriptLoad(g)
  \/ \E ext \in StartExt : handleRequestCameraAccess(ext)
  \/ \E stopExt \in StopExt, ext \in StartExt : handleRetry(stopExt, ext)
  \/ \E ext \in StartExt : RetryTimerFires(ext)
  \/ \E c \in 1..MaxInstances, live \in BOOLEAN : StartResolves(c, live)
  \/ \E c \in 1..MaxInstances, message \in StartErrors : StartRejects(c, message)
  \/ \E c \in 1..MaxInstances, sendOk \in BOOLEAN : onFrame(c, sendOk)
  \/ \E stopExt \in StopExt : Unmount(stopExt)

WebcamLoads == \E ext \in StartExt : handleWebcamLoad(ext)
WebcamFails == \E error \in WebcamErrors, ext \in StartExt : handleWebcamError(error, ext)

\* The capture surface may report at any point while it is mounted.
Next == OtherSteps \/ WebcamLoads \/ WebcamFails

Spec == Init /\ [][Next]_vars

\* The capture surface as react-webcam drives it: one getUserMedia request per
\* mount, which either succeeds (onUserMedia) or fails (onUserMediaError).
NextSingleReport ==
  \/ OtherSteps
  \/ (webcam = "requesting" /\ WebcamLoads)
  \/ (webcam = "requesting" /\ WebcamFails)

SpecSingleReport == Init /\ [][NextSingleReport]_vars

\* Browser timers fire, pending promises settle, active loops deliver frames
\* and scripts finish loading; the user and the capture surface owe nothing.
FairSpec ==
  /\ SpecSingleReport
  /\ WF_vars(Poll)
  /\ WF_vars(GraceTimeout)
  /\ WF_vars(\E g \in Libs : ScriptLoad(g))
  /\ WF_vars(\E ext \in StartExt : RetryTimerFires(ext))
  /\ WF_vars(\E c \in 1..MaxInstances, live \in BOOLEAN : StartResolves(c, live))

\* The renderer at work: the view from mount to teardown without Retry and
\* without the availability prober's timers, with the detector delivering
\* results.
NextRenderer ==
  \/ Mount
  \/ \E ext \in StartExt : handleRequestCameraAccess(ext)
  \/ (webcam = "requesting" /\ WebcamLoads)
  \/ (webcam = "requesting" /\ WebcamFails)
  \/ \E c \in 1..MaxInstances, live \in BOOLEAN : StartResolves(c, live)
  \/ \E c \in 1..MaxInstances, sendOk \in BOOLEAN : onFrame(c, sendOk)
  \/ \E results \in Results, context \in {"ok", "noContext"} : onResults(results, context)
  \/ \E stopExt \in StopExt : Unmount(stopExt)

RendererSpec == Init /\ [][NextRenderer]_vars

\* The page and the availability prober: App's probe of the script host next
\* to FaceMeshView's poll of the globals, with nobody touching the gate.
NextPage ==
  \/ Mount
  \/ Poll
  \/ GraceTimeout
  \/ \E g \in Libs : ScriptLoad(g)
  \/ checkCdnAvailability
  \/ \E responses \in FetchOutcomes : ProbeSettles(responses)
  \/ \E stopExt \in StopExt : Unmount(stopExt)

PageSpec == Init /\ [][NextPage]_vars

\* ------------------------------------------------------------------ claims

\* C1: at most one capture loop is active at any time: under every
\* interleaving of grant, webcam events, the auto-start effect, Retry, the
\* Retry timer and the settling of a pending start, the capture loops started
\* (or being started) and not yet stopped number at most one.
C1_AtMostOneCaptureLoop == Cardinality(LiveCameras(cameras)) <= 1

\* C2: every start attempt that constructs a detector and a capture loop
\* happens with the gate dismissed, the mounted capture surface having
\* reported ready, the availability flag true and the session not running,
\* on each of the three start paths.
C2_StartOnlyWhenPermitted ==
  attempt.outcome = "constructed" =>
    /\ attempt.path \in {"effect", "retry", "grant"}
    /\ ~showPermissionRequest
    /\ webcam = "ready"
    /\ cdnAvailable
    /\ ~isRunning

\* The state in which the spec's start transition applies.
StartPermitted ==
  phase = "mounted" /\ ~showPermissionRequest /\ cameraReady /\ cdnAvailable /\ ~isRunning

\* C3: whenever the gate is dismissed, the surface ready, the flag true and
\* the session not running, a start is eventually attempted without user
\* action; stated for the case the claim names, the first attempt having
\* failed as unavailable and the flag having turned true afterwards (the
\* claim is excused as soon as the condition ceases to hold).
C3_AutoStartEventually ==
  []((StartPermitted /\ lastError = UnavailableMsg) =>
       <>(attempt.outcome # "none" \/ ~(StartPermitted /\ lastError = UnavailableMsg)))

\* C4: after teardown from any state the poll interval and the grace timeout
\* are cancelled, the detector is closed and the capture loop stopped, and no
\* new detector or active capture loop exists afterwards.
C4_TeardownComplete ==
  phase = "unmounted" =>
    /\ ~intervalActive /\ ~timeoutPending
    /\ faceMeshRef # 0 => detectors[faceMeshRef].closed
    /\ cameraRef # 0 => cameras[cameraRef].stopCalled
    /\ LiveCameras(cameras) = {}
    /\ attempt.outcome # "constructed"

\* The permission-denied errors among the capture surface's reports.
PermissionErrors == {e \in WebcamErrors : e.message \in {"Permission denied", "no permission"}}

\* C5: a permission-class capture error, in whatever state it is observed,
\* leaves the permission gate shown.
C5_PermissionErrorShowsGate ==
  [][(\E error \in PermissionErrors, ext \in StartExt : handleWebcamError(error, ext))
       => showPermissionRequest']_vars

\* C5 witness: a permission error observed while the session was running.
C5_Witness == showPermissionRequest /\ isRunning /\ lastError = "no permission"

\* What every failed start leaves in lastError: the failure's message, or the
\* fallback text when it has none.
StartFailureShown ==
  /\ \A c \in 1..MaxInstances, m \in StartErrors :
       (phase = "mounted" /\ StartRejects(c, m)) =>
         lastError' = (IF m # "" THEN m ELSE StartFallbackMsg)
  /\ attempt'.outcome = "unavailable" => lastError' = UnavailableMsg
  /\ attempt'.outcome = "threw" => lastError' = InitFallbackMsg

\* C6 as claimed: a failed start and a failed frame send both put the
\* session in the error state with the failure's message in lastError.
C6_FailureSetsLastError ==
  [][StartFailureShown /\ (lastFrame' = "failed" => lastError' # NULL)]_vars

\* C6 as amended: a failed start sets lastError to the failure's message (the
\* fallback text when it has none); a failed frame send leaves lastError as
\* it was.
C6_StartFailureSetsLastError ==
  [][StartFailureShown /\ (lastFrame' = "failed" => lastError' = lastError)]_vars

\* C6 witness: a start has just failed as unavailable and its message is shown.
C6_Witness == attempt.outcome = "unavailable" /\ lastError = UnavailableMsg /\ ~isLoading

\* C7: a failing frame send leaves isRunning, lastError, isLoading and the
\* gate as they were, stops no capture loop, and frames can still be
\* forwarded afterwards.
C7_FrameErrorKeepsRunning ==
  [][(\E c \in 1..MaxInstances : onFrame(c, FALSE)) =>
       /\ UNCHANGED <<isRunning, lastError, isLoading, showPermissionRequest,
                      cameras, detectors, faceMeshRef, cameraRef>>
       /\ \E c \in 1..Len(cameras') : cameras'[c].status = "active"
       /\ faceMeshRef' # 0 /\ phase' = "mounted" /\ ~showPermissionRequest']_vars

\* C7 witness: a frame send has just failed in a running session.
C7_Witness == lastFrame = "failed" /\ isRunning /\ lastError = NULL

\* Two views that differ at most in the record of repeated teardown calls.
SameSession(a, b) == [a EXCEPT !.repeatedTeardown = FALSE] = [b EXCEPT !.repeatedTeardown = FALSE]

\* C8: stop is idempotent: with no session ever started it raises no error
\* and touches no external instance; called twice in a row it raises no error
\* and leaves the state one call leaves.
C8_StopIdempotent ==
  /\ \A e \in StopExt : ~stopFaceMesh(View, e).uncaught
  /\ (faceMeshRef = 0 /\ cameraRef = 0) =>
       \A e \in StopExt : stopFaceMesh(View, e) = [View EXCEPT !.isRunning = FALSE]
  /\ \A e1, e2 \in StopExt :
       LET once == stopFaceMesh(View, e1)
           twice == stopFaceMesh(once, e2)
       IN /\ ~twice.uncaught
          /\ (e1 = "ok" /\ e2 = "ok") => SameSession(twice, once)

\* C8 witness: stop has run at unmount with no session ever started.
C8_Witness == phase = "unmounted" /\ faceMeshRef = 0 /\ cameraRef = 0 /\ ~uncaught

\* C9: no detector is closed more than once and no capture loop is stopped
\* more than once, whatever the sequence of stop calls.
C9_NoRepeatedTeardown == ~repeatedTeardown

\* A stop call in which Camera.stop() throws.
StopThrows ==
  /\ cameraRef # 0
  /\ \/ isRunning /\ \E ext \in StartExt : handleRetry("stopThrows", ext)
     \/ Unmount("stopThrows")

\* C10: when stopping the capture loop throws, the error does not leave
\* stop, the detector is still closed and the session is no longer marked
\* running.
C10_StopFailureSwallowed ==
  [][StopThrows =>
       /\ ~uncaught'
       /\ faceMeshRef # 0 => detectors'[faceMeshRef].closed
       /\ phase' = "mounted" => ~isRunning']_vars

\* C11: the availability flag is true only when all three expected globals
\* are present and false whenever one of them is missing, in every state, the
\* one before the first check has run included. (A global, once defined, stays
\* defined, so a flag that is true by a check stays justified.)
C11_FlagMatchesGlobals == cdnAvailable => globals = Libs

\* A Retry click in which stopping raises nothing.
RetryClick == \E ext \in StartExt : handleRetry("ok", ext)

\* The timer of a Retry fires and nothing has restarted the session since the
\* click: the capture surface is shown, the error is still cleared, the session
\* is not running and no capture loop is started or being started.
RetryStillOwed ==
  /\ \E ext \in StartExt : RetryTimerFires(ext)
  /\ SurfaceMounted(View) /\ lastError = NULL /\ ~isRunning /\ LiveCameras(cameras) = {}

\* C12: a Retry click clears the displayed error (a start attempted in the
\* same step may set a new one) and, if the session was running, first stops
\* the stored capture loop and closes the stored detector; and the click leads
\* to a new start attempt after the stop, whether or not the session was
\* running: when its timer fires and nothing has restarted the session since
\* the click, the start attempt is made then.
C12_RetryRestarts ==
  [][/\ RetryClick =>
          /\ attempt'.outcome \in {"none", "constructed"} => lastError' = NULL
          /\ (isRunning /\ cameraRef # 0) => cameras'[cameraRef].stopCalled
          /\ (isRunning /\ faceMeshRef # 0) => detectors'[faceMeshRef].closed
     /\ RetryStillOwed => attempt'.outcome # "none"]_vars

\* The start() promise of a capture loop resolves.
StartSucceeds == \E c \in 1..MaxInstances, live \in BOOLEAN : StartResolves(c, live)

\* C13: when a camera start succeeds in the mounted view, the session is
\* running with the error cleared (isRunning true, lastError null, isLoading
\* false) after that step; and isRunning turns true in no other step.
C13_StartSuccessRuns ==
  [][/\ (phase = "mounted" /\ StartSucceeds) =>
          (isRunning' /\ lastError' = NULL /\ ~isLoading')
     /\ (~isRunning /\ isRunning') => StartSucceeds]_vars

\* C13 witness: a start has succeeded: the session is running over an active
\* capture loop, no error is shown and nothing is loading.
C13_Witness ==
  /\ phase = "mounted" /\ isRunning /\ lastError = NULL /\ ~isLoading
  /\ cameraRef # 0 /\ cameras[cameraRef].status = "active"

\* The draw sequence of one pass, in the order the claim gives: mesh,
\* right/left eye, right/left eyebrow, face outline, lips, landmark points.
C14_Pass(landmarks) ==
  << Call("drawConnectors", "FACEMESH_TESSELATION", landmarks),
     Call("drawConnectors", "FACEMESH_RIGHT_EYE", landmarks),
     Call("drawConnectors", "FACEMESH_LEFT_EYE", landmarks),
     Call("drawConnectors", "FACEMESH_RIGHT_EYEBROW", landmarks),
     Call("drawConnectors", "FACEMESH_LEFT_EYEBROW", landmarks),
     Call("drawConnectors", "FACEMESH_FACE_OVAL", landmarks),
     Call("drawConnectors", "FACEMESH_LIPS", landmarks),
     Call("drawLandmarks", "points", landmarks) >>

\* C14: after onResults was given N >= 1 faces and found a canvas with a 2D
\* context, its calls are: save, one clear, the mirror transform (scale,
\* translate), then exactly N passes of the draw sequence, pass k for face k
\* and each in the claimed order, then restore; every draw was made under the
\* mirror, and the context is back in the state that was saved.
C14_DrawsEveryFace ==
  LET faces == lastResults.results.multiFaceLandmarks
      N == Len(faces)
      log == ctx.log
  IN (lastResults.canvas = "ok" /\ lastResults.results.defined /\ N >= 1) =>
       /\ Len(log) = 4 + 8 * N + 1
       /\ SubSeq(log, 1, 4) = << Call("save", "", ""), Call("clearRect", "", ""),
                                 Call("scale", "", ""), Call("translate", "", "") >>
       /\ \A k \in 1..N : SubSeq(log, 4 + 8 * (k - 1) + 1, 4 + 8 * k) = C14_Pass(faces[k])
       /\ log[Len(log)] = Call("restore", "", "")
       /\ Len(ctx.pixels) = 8 * N
       /\ \A i \in 1..Len(ctx.pixels) : ctx.pixels[i].transform = "mirrored"
       /\ ctx.transform = "identity" /\ ctx.saved = <<>>

\* C14 witness: a result with two different faces has been drawn.
C14_Witness ==
  /\ lastResults.canvas = "ok"
  /\ lastResults.results.multiFaceLandmarks = <<"face1", "face2">>
  /\ Len(ctx.log) = 21

\* A call of a drawing helper.
IsDraw(call) == call.op \in {"drawConnectors", "drawLandmarks"}

\* C15: a result with zero faces (the list absent or empty) given to a valid
\* canvas clears it and makes no drawing call (the calls are save, clear,
\* scale, translate, restore and nothing is left on the canvas); with no canvas
\* or no 2D context the renderer makes no call on the context and leaves what
\* is on the canvas, its transform and its save stack as they were.
C15_ZeroFacesOnlyClears ==
  [][(\E results \in Results, context \in {"ok", "noContext"} : onResults(results, context)) =>
       /\ (lastResults'.canvas = "ok" /\ (~lastResults'.results.defined
                                          \/ lastResults'.results.multiFaceLandmarks = <<>>)) =>
            /\ [i \in 1..Len(ctx'.log) |-> ctx'.log[i].op]
                 = <<"save", "clearRect", "scale", "translate", "restore">>
            /\ \A i \in 1..Len(ctx'.log) : ~IsDraw(ctx'.log[i])
            /\ ctx'.pixels = <<>>
       /\ lastResults'.canvas # "ok" =>
            /\ ctx'.log = <<>>
            /\ ctx'.pixels = ctx.pixels /\ ctx'.transform = ctx.transform
            /\ ctx'.saved = ctx.saved]_vars

\* C15 witness: a result without a face list has been given to a valid canvas,
\* and the canvas is clear.
C15_Witness ==
  /\ lastResults = [results |-> NoFaces, canvas |-> "ok"]
  /\ Len(ctx.log) = 5 /\ ctx.pixels = <<>>

\* The three script resources, in the order they are appended to <head>.
C16_Scripts == <<"camera_utils", "drawing_utils", "face_mesh">>

\* C16: scripts are injected at most once per mount: a step appends script
\* elements only if it is the grace timer firing (which disarms it for good)
\* with an expected global absent and nothing injected before, and it then
\* appends exactly the three resources; the timer is never armed again, and
\* the poll interval stays set for as long as the view is mounted, whether or
\* not the globals ever appear.
C16_InjectsAtMostOnce ==
  [][/\ injected' # injected =>
          /\ timeoutPending /\ ~timeoutPending'
          /\ globals # Libs
          /\ injected = <<>> /\ injected' = C16_Scripts
     /\ timeoutPending' => (timeoutPending \/ phase = "rendered")
     /\ phase' = "mounted" => intervalActive']_vars

\* C16 witness: the scripts were injected once, the timer is spent, a global
\* is still absent and the view keeps polling.
C16_Witness ==
  /\ phase = "mounted" /\ injected = C16_Scripts /\ ~timeoutPending
  /\ globals # Libs /\ ~cdnAvailable /\ intervalActive

\* C17: whenever the view's availability flag is false (so that start
\* attempts are blocked) and the probe of the page is not in progress, the
\* banner of the page is shown.
C17_BannerWhenUnavailable ==
  (phase = "mounted" /\ ~cdnAvailable /\ ~isCheckingCdn /\ probes = 0) => Banner

\* C18: the session modes are mutually exclusive: in every state of the
\* mounted view in which the permission gate is shown, the session is not
\* marked running and no capture loop is active.
C18_GateExcludesRunning ==
  (phase = "mounted" /\ showPermissionRequest) =>
    /\ ~isRunning
    /\ \A c \in 1..Len(cameras) : cameras[c].status # "active"

\* The detectors created and not closed.
OpenDetectors == {d \in 1..Len(detectors) : ~detectors[d].closed}

\* C19: no instance is orphaned: at most one created-and-not-closed detector
\* exists at any moment, and a start attempt that stores new instances finds
\* the stored detector (if any) closed and the stored capture loop (if any)
\* stopped or failed with stop() called on it.
C19_NoOrphanedInstance ==
  /\ Cardinality(OpenDetectors) <= 1
  /\ attempt.outcome = "constructed" =>
       /\ \A d \in 1..(Len(detectors) - 1) : detectors[d].closed
       /\ \A c \in 1..(Len(cameras) - 1) : cameras[c].stopCalled

\* What lastError holds after a failed start and until the next Retry click,
\* successful start or capture error.
StartFailureMessages == {UnavailableMsg, InitFallbackMsg, StartFallbackMsg}

\* A user action or a report of the capture surface.
UserOrSurfaceStep ==
  \/ \E ext \in StartExt : handleRequestCameraAccess(ext)
  \/ \E stopExt \in StopExt, ext \in StartExt : handleRetry(stopExt, ext)
  \/ WebcamLoads
  \/ WebcamFails

\* C20: a failed start is never retried automatically: while the message of a
\* failed start is displayed (no Retry click, successful start or capture
\* error has replaced it since the failure), a start attempt is made only by
\* a step that is itself a user action (granting, Retry) or a report of the
\* capture surface.
C20_NoAutomaticRetry ==
  [][(lastError \in StartFailureMessages /\ attempt'.outcome # "none")
       => UserOrSurfaceStep]_vars

\* C20 as amended: in every state, after a failed start or not, a start
\* attempt is made only by a step that is a user action, a report of the
\* capture surface, or the timer of an earlier Retry click firing (each
\* click arms one timer, which fires once): no poll, grace timeout, script
\* load, settled start promise, frame or teardown starts a session.
C20_NoUnpromptedStart ==
  [][attempt'.outcome # "none" =>
       (UserOrSurfaceStep \/ \E ext \in StartExt : RetryTimerFires(ext))]_vars

\* C20 witness: the start promise of the stored capture loop has rejected,
\* its fallback message is displayed, and that step attempted no new start.
C20_Witness ==
  /\ phase = "mounted" /\ ~showPermissionRequest /\ cameraReady /\ ~isRunning
  /\ cameraRef # 0 /\ cameras[cameraRef].status = "failed"
  /\ lastError = StartFallbackMsg /\ attempt.outcome = "none"

====
